---- MODULE Spec2Model ----
(***************************************************************************)
(* A model of LettreLiaison.py: the value sanitizers, the schema           *)
(* normalizer, the identifier reconstruction, the roster loader, the       *)
(* form's lookups and the issuance registry kept in Base_LettreLiaison.xlsx.*)
(*                                                                         *)
(* Text.  A Python str is a sequence of characters, each written as a      *)
(* string.  Accented letters are written as ASCII digraphs: "e'" is e with *)
(* an acute accent, "E'" its capital, "o^" is o with a circumflex.  The    *)
(* missing marker of pandas (NaN / None) is the value NaN below, which is  *)
(* no text any input can spell.                                            *)
(***************************************************************************)
EXTENDS Integers, Sequences, FiniteSets, TLC

VARIABLES
    pc,         \* position of the function under study / of the application
    arg,        \* argument handed to the function under study
    ret,        \* its result
    rosterFile, \* lll.CSV on disk
    df,         \* App.df, the in-memory roster
    form,       \* the StringVars of the form
    listbox,    \* the open autocomplete popup
    msg,        \* the last message box / callback outcome
    baseFile,   \* Base_LettreLiaison.xlsx on disk
    pdfFile,    \* lettre_liaison.pdf on disk
    lastCall    \* what the last generate_pdf call was given and how it ended

vars == <<pc, arg, ret, rosterFile, df, form, listbox, msg, baseFile, pdfFile, lastCall>>
fnVars == <<pc, arg, ret>>
appVars == <<rosterFile, df, form, listbox, msg>>
regVars == <<baseFile, pdfFile, lastCall>>

(***************************************************************************)
(* Bounds of the model and constants of the program.                       *)
(***************************************************************************)
MaxRawLen == 9
MaxCols == 4
MaxCnssRows == 2
MaxHeaders == 3
MaxNormRows == 1
MaxRegistryRows == 2
CinWidth == 8
NumWidth == 2
MinCnssLen == 8

(***************************************************************************)
(* Characters and strings.                                                 *)
(***************************************************************************)
Digits == {"0", "1", "2", "3", "4", "5", "6", "7", "8", "9"}
DigitChars == <<"0", "1", "2", "3", "4", "5", "6", "7", "8", "9">>
Whitespace == {" "}
UpperChars == <<"A","B","C","D","E","F","G","H","I","J","K","L","M","N","O","P","Q","R","S","T","U","V","W","X","Y","Z","E'">>
LowerChars == <<"a","b","c","d","e","f","g","h","i","j","k","l","m","n","o","p","q","r","s","t","u","v","w","x","y","z","e'">>
AccentedChars == <<"e'", "E'", "o^">>
BaseChars == <<"e", "E", "o">>

NaN == <<"<NaN>">>
Empty == <<>>

Strings(A, n) == UNION {[1..k -> A] : k \in 0..n}

isna(v) == v = NaN

\* str(v): the text of a value; str(nan) is 'nan'
ToStr(v) == IF isna(v) THEN <<"n", "a", "n">> ELSE v

isdigit(ch) == ch \in Digits

RECURSIVE lstrip(_)
lstrip(s) ==
    IF s # <<>> /\ Head(s) \in Whitespace THEN lstrip(Tail(s)) ELSE s

RECURSIVE rstrip(_)
rstrip(s) ==
    IF s # <<>> /\ s[Len(s)] \in Whitespace THEN rstrip(SubSeq(s, 1, Len(s) - 1)) ELSE s

strip(s) == rstrip(lstrip(s))

\* str.zfill(width): zeros on the left up to width, never a cut
zfill(s, width) ==
    IF Len(s) >= width THEN s ELSE [i \in 1..(width - Len(s)) |-> "0"] \o s

startswith(s, p) == Len(s) >= Len(p) /\ SubSeq(s, 1, Len(p)) = p
endswith(s, p) == Len(s) >= Len(p) /\ SubSeq(s, Len(s) - Len(p) + 1, Len(s)) = p

\* p in s
Contains(s, p) == \E i \in 0..(Len(s) - Len(p)) : SubSeq(s, i + 1, i + Len(p)) = p

lower_ch(c) ==
    IF \E i \in 1..Len(UpperChars) : UpperChars[i] = c
    THEN LowerChars[CHOOSE i \in 1..Len(UpperChars) : UpperChars[i] = c]
    ELSE c

lower(s) == [i \in 1..Len(s) |-> lower_ch(s[i])]

unaccent_ch(c) ==
    IF \E i \in 1..Len(AccentedChars) : AccentedChars[i] = c
    THEN BaseChars[CHOOSE i \in 1..Len(AccentedChars) : AccentedChars[i] = c]
    ELSE c

\* unicodedata.normalize('NFKD', text) without the combining characters
remove_accents(text) == [i \in 1..Len(ToStr(text)) |-> unaccent_ch(ToStr(text)[i])]

RECURSIVE DecimalStr(_)
DecimalStr(k) ==
    IF k < 10 THEN <<DigitChars[k + 1]>>
    ELSE DecimalStr(k \div 10) \o <<DigitChars[(k % 10) + 1]>>

(***************************************************************************)
(* Value Sanitizer.                                                        *)
(***************************************************************************)
RECURSIVE DeduplicateLoop(_, _, _, _)
DeduplicateLoop(columns, i, seen, new_cols) ==
    IF i > Len(columns) THEN new_cols
    ELSE LET col == columns[i] IN
         IF col \notin DOMAIN seen
         THEN DeduplicateLoop(columns, i + 1, (col :> 0) @@ seen, Append(new_cols, col))
         ELSE LET k == seen[col] + 1 IN
              DeduplicateLoop(columns, i + 1, (col :> k) @@ seen,
                              Append(new_cols, col \o <<".">> \o DecimalStr(k)))

NoneSeen == [c \in {} |-> 0]

deduplicate_columns(columns) == DeduplicateLoop(columns, 1, NoneSeen, <<>>)

format_cin(cin) ==
    IF isna(cin) \/ strip(ToStr(cin)) = <<>> THEN <<>>
    ELSE zfill(SelectSeq(ToStr(cin), isdigit), CinWidth)

format_num(num) ==
    IF isna(num) \/ strip(ToStr(num)) = <<>> THEN <<>>
    ELSE zfill(SelectSeq(ToStr(num), isdigit), NumWidth)

clean_csv_value(val) ==
    IF isna(val) THEN <<>>
    ELSE LET v == strip(ToStr(val)) IN
         IF startswith(v, <<"=", "\"">>) /\ endswith(v, <<"\"">>)
         THEN strip(SubSeq(v, 3, Len(v) - 1))
         ELSE strip(v)

(***************************************************************************)
(* Tables.  A DataFrame is its column labels and its rows, each row a      *)
(* sequence of cells aligned with the labels.                              *)
(***************************************************************************)
Matricule == <<"M","a","t","r","i","c","u","l","e">>
Nom == <<"N","o","m">>
Prenom == <<"P","r","e'","n","o","m">>
CIN == <<"C","I","N">>
CNSS == <<"C","N","S","S">>
Num == <<"N","u","m">>
NomComplet == <<"N","o","m","C","o","m","p","l","e","t">>
NoMapping == <<"<none>">>
NeededColumns == <<Matricule, Nom, Prenom, CIN, CNSS, Num>>

HasColumn(t, name) == \E i \in 1..Len(t.cols) : t.cols[i] = name

\* the position of the first column labelled name
ColumnIndex(t, name) == CHOOSE i \in 1..Len(t.cols) :
    t.cols[i] = name /\ \A j \in 1..(i - 1) : t.cols[j] # name

Cell(t, r, name) == t.rows[r][ColumnIndex(t, name)]

\* df[name] = value, for a label df does not have yet
AddColumn(t, name, value) ==
    [cols |-> Append(t.cols, name),
     rows |-> [r \in 1..Len(t.rows) |-> Append(t.rows[r], value)]]

\* df[name] = values, for a label df has: values holds the new cell of each row
SetColumn(t, name, values) ==
    [cols |-> t.cols,
     rows |-> [r \in 1..Len(t.rows) |->
                 [c \in 1..Len(t.cols) |->
                     IF c = ColumnIndex(t, name) THEN values[r] ELSE t.rows[r][c]]]]

\* df[name].apply(f): one value per row
Column(t, name) == [r \in 1..Len(t.rows) |-> Cell(t, r, name)]

\* the positions kept by df.loc[:, ~df.columns.duplicated()], in order
RECURSIVE KeptPositions(_, _)
KeptPositions(cols, i) ==
    IF i > Len(cols) THEN <<>>
    ELSE IF \E j \in 1..(i - 1) : cols[j] = cols[i]
         THEN KeptPositions(cols, i + 1)
         ELSE <<i>> \o KeptPositions(cols, i + 1)

DropDuplicatedColumns(t) ==
    LET keep == KeptPositions(t.cols, 1) IN
    [cols |-> [k \in 1..Len(keep) |-> t.cols[keep[k]]],
     rows |-> [r \in 1..Len(t.rows) |-> [k \in 1..Len(keep) |-> t.rows[r][keep[k]]]]]

(***************************************************************************)
(* Schema Normalizer.                                                      *)
(***************************************************************************)
K_matric == <<"m","a","t","r","i","c">>
K_prenom == <<"p","r","e","n","o","m">>
K_prenom_accent == <<"p","r","e'","n","o","m">>
K_nom == <<"n","o","m">>
K_carte_sejour == <<"c","a","r","t","e"," ","d","e"," ","s","e","j","o","u","r">>
K_carte_travail == <<"c","a","r","t","e"," ","d","e"," ","t","r","a","v","a","i","l">>
K_numero_accent == <<"n","u","m","e'","r","o"," ","d","e"," ","s","e","c","u","r","i","t","e">>
K_numero == <<"n","u","m","e","r","o"," ","d","e"," ","s","e","c","u","r","i","t","e">>
K_cle_accent == <<"c","l","e'"," ","d","u"," ">> \o K_numero_accent
K_cle == <<"c","l","e"," ","d","u"," ">> \o K_numero

HeaderKey(col) == lower(strip(remove_accents(col)))

\* the if / elif chain of the mapping loop: the first branch that matches wins
ColumnMapping(col) ==
    LET key == HeaderKey(col) IN
    IF Contains(key, K_matric) THEN Matricule
    ELSE IF Contains(key, K_prenom) \/ Contains(key, K_prenom_accent) THEN Prenom
    ELSE IF Contains(key, K_nom) THEN Nom
    ELSE IF Contains(key, K_carte_sejour) \/ Contains(key, K_carte_travail) THEN CIN
    ELSE IF Contains(key, K_numero_accent) \/ Contains(key, K_numero) THEN CNSS
    ELSE IF Contains(key, K_cle_accent) \/ Contains(key, K_cle) THEN Num
    ELSE NoMapping

\* df.rename(columns=mapping)
RenameColumns(cols) ==
    [i \in 1..Len(cols) |->
        IF ColumnMapping(cols[i]) # NoMapping THEN ColumnMapping(cols[i]) ELSE cols[i]]

RECURSIVE AddMissingColumns(_, _)
AddMissingColumns(t, n) ==
    IF n > Len(NeededColumns) THEN t
    ELSE IF HasColumn(t, NeededColumns[n])
         THEN AddMissingColumns(t, n + 1)
         ELSE AddMissingColumns(AddColumn(t, NeededColumns[n], <<>>), n + 1)

StripNeededColumns_noStrip(t) == t

\* df[col].astype(str).str.strip() on the six needed columns
StripNeededColumns(t) ==
    [cols |-> t.cols,
     rows |-> [r \in 1..Len(t.rows) |->
                 [c \in 1..Len(t.cols) |->
                     IF \E n \in 1..Len(NeededColumns) : NeededColumns[n] = t.cols[c]
                     THEN strip(ToStr(t.rows[r][c]))
                     ELSE t.rows[r][c]]]]

normalize_employee_columns(t) ==
    LET deduplicated == [cols |-> deduplicate_columns(t.cols), rows |-> t.rows]
        renamed == [cols |-> RenameColumns(deduplicated.cols), rows |-> t.rows]
    IN  StripNeededColumns(AddMissingColumns(DropDuplicatedColumns(renamed), 1))

\* the mapping dict built by normalize_employee_columns, as its set of items
MappingOf(t) ==
    LET cols == deduplicate_columns(t.cols) IN
    {<<cols[i], ColumnMapping(cols[i])>> : i \in {j \in 1..Len(cols) : ColumnMapping(cols[j]) # NoMapping}}

(***************************************************************************)
(* Identifier Reconstructor.                                               *)
(***************************************************************************)
KeepCnss_strict(x) == IF Len(x) > MinCnssLen THEN x ELSE <<>>

\* lambda x: x if len(x) >= 8 else ''
KeepCnss(x) == IF Len(x) >= MinCnssLen THEN x ELSE <<>>

update_cnss_with_num(t) ==
    LET t1 == IF HasColumn(t, CNSS) THEN t ELSE AddColumn(t, CNSS, <<>>)
        t2 == IF HasColumn(t1, Num) THEN t1 ELSE AddColumn(t1, Num, <<>>)
        t3 == SetColumn(t2, Num, [r \in 1..Len(t2.rows) |-> format_num(Column(t2, Num)[r])])
        t4 == SetColumn(t3, CNSS,
                  [r \in 1..Len(t3.rows) |-> strip(ToStr(Column(t3, CNSS)[r])) \o Column(t3, Num)[r]])
    IN  SetColumn(t4, CNSS, [r \in 1..Len(t4.rows) |-> KeepCnss(Column(t4, CNSS)[r])])

(***************************************************************************)
(* Issuance Registry.  Base_LettreLiaison.xlsx is absent, a sheet of rows, *)
(* or damaged (no workbook any more).  Of the registry's columns the model *)
(* keeps 'Matricule', 'Nom & Prenom' and "Date d'admission"; the others    *)
(* ('CIN', 'CNSS', 'Type de prise en charge', 'Hopital', the time stamp)   *)
(* travel the same way and take no part in the key.                        *)
(*                                                                         *)
(* A value of a DataFrame, and a cell of the sheet, is a str, a number     *)
(* (written by its decimal digits) or the missing marker.                  *)
(***************************************************************************)
StrValue(s) == [t |-> "str", v |-> s]
NumValue(digits) == [t |-> "num", v |-> digits]
NanValue == [t |-> "nan", v |-> <<>>]

Absent == [state |-> "absent", rows |-> <<>>]
Damaged == [state |-> "damaged", rows |-> <<>>]
Sheet(rows) == [state |-> "sheet", rows |-> rows]

RegistryFields == {"Matricule", "NomPrenom", "DateAdmission"}

IsNumericText(s) == s # <<>> /\ \A i \in 1..Len(s) : isdigit(s[i])

\* the digits of int(s)
RECURSIVE Canonical(_)
Canonical(s) == IF Len(s) > 1 /\ Head(s) = "0" THEN Canonical(Tail(s)) ELSE s

\* pandas infers each column's type on reading: a column all of whose cells are
\* numbers, empty or text that spells a number is read as numbers
ColumnIsNumeric(rows, f) ==
    \A r \in 1..Len(rows) :
        \/ rows[r][f].t \in {"num", "nan"}
        \/ rows[r][f].t = "str" /\ IsNumericText(rows[r][f].v)

\* pd.read_excel(BASE_FILE, engine='openpyxl') of a readable sheet
read_excel(rows) ==
    [r \in 1..Len(rows) |->
        [f \in RegistryFields |->
            IF rows[r][f].t = "str" /\ ColumnIsNumeric(rows, f)
            THEN NumValue(Canonical(rows[r][f].v))
            ELSE rows[r][f]]]

\* base_df.to_excel(BASE_FILE, index=False, engine='openpyxl'): the cells written;
\* an empty str makes an empty cell
to_excel(frame) ==
    [r \in 1..Len(frame) |->
        [f \in RegistryFields |->
            IF frame[r][f] = StrValue(<<>>) THEN NanValue ELSE frame[r][f]]]

data_to_save(data) ==
    [Matricule |-> StrValue(data.Matricule),
     NomPrenom |-> StrValue(strip(data.Nom \o <<" ">> \o data.Prenom)),
     DateAdmission |-> StrValue(data.DateAdmission)]

\* ((base_df['Matricule'] == ...) & (base_df["Date d'admission"] == ...)).any():
\* a number or a missing value equals no str
AlreadyRecorded(base_df, row) ==
    \E r \in 1..Len(base_df) :
        /\ base_df[r].Matricule = row.Matricule
        /\ base_df[r].DateAdmission = row.DateAdmission

\* the try block of generate_pdf: the file it leaves and how it ended.  io says
\* which input/output call fails, if any: reading fails on a damaged workbook and
\* whenever io says so; a write that fails does so either on opening the file,
\* which is then left as it was, or after the file was opened for writing, which
\* leaves it damaged
RegistryStep(file, data, io) ==
    IF file.state = "damaged" \/ (io = "read_fails" /\ file.state = "sheet")
    THEN [file |-> file, outcome |-> "read_error"]
    ELSE LET base_df == IF file.state = "sheet" THEN read_excel(file.rows) ELSE <<>>
             row == data_to_save(data)
         IN  IF AlreadyRecorded(base_df, row)
             THEN [file |-> file, outcome |-> "already_recorded"]
             ELSE IF io = "write_fails_at_open"
             THEN [file |-> file, outcome |-> "write_open_error"]
             ELSE IF io = "write_fails_midway"
             THEN [file |-> Damaged, outcome |-> "write_midway_error"]
             ELSE [file |-> Sheet(to_excel(Append(base_df, row))), outcome |-> "recorded"]

PdfOutcomes == {"ok", "fails_at_open", "fails_midway"}
IoOutcomes == {"ok", "read_fails", "write_fails_at_open", "write_fails_midway"}
RegistryErrors == {"read_error", "write_open_error", "write_midway_error"}

NoPdf == [state |-> "absent", data |-> NoMapping]
DamagedPdf == [state |-> "damaged", data |-> NoMapping]
NoCall == [data |-> NoMapping, outcome |-> "none", before |-> Absent, returned |-> TRUE]

generate_pdf_uncaught(data, pdf, io) ==
    /\ baseFile.state = "sheet" => Len(baseFile.rows) < MaxRegistryRows
    /\ IF pdf # "ok"
       THEN /\ pdfFile' = IF pdf = "fails_at_open" THEN pdfFile ELSE DamagedPdf
            /\ baseFile' = baseFile
            /\ lastCall' = [data |-> data, outcome |-> "pdf_error", before |-> baseFile,
                            returned |-> FALSE]
            /\ msg' = "callback_error"
       ELSE LET step == RegistryStep(baseFile, data, io) IN
            /\ pdfFile' = [state |-> "written", data |-> data]
            /\ baseFile' = step.file
            /\ lastCall' = [data |-> data, outcome |-> step.outcome, before |-> baseFile,
                            returned |-> step.outcome \notin RegistryErrors]
            /\ msg' = IF step.outcome \in RegistryErrors THEN "callback_error" ELSE "Succes"

\* generate_pdf(data, ...) as called by App.generate, which reports success when
\* the call returns.  c.save() comes first; an exception it raises leaves the
\* function before the registry is touched
generate_pdf(data, pdf, io) ==
    /\ baseFile.state = "sheet" => Len(baseFile.rows) < MaxRegistryRows
    /\ IF pdf # "ok"
       THEN /\ pdfFile' = IF pdf = "fails_at_open" THEN pdfFile ELSE DamagedPdf
            /\ baseFile' = baseFile
            /\ lastCall' = [data |-> data, outcome |-> "pdf_error", before |-> baseFile,
                            returned |-> FALSE]
            /\ msg' = "callback_error"
       ELSE LET step == RegistryStep(baseFile, data, io) IN
            /\ pdfFile' = [state |-> "written", data |-> data]
            /\ baseFile' = step.file
            /\ lastCall' = [data |-> data, outcome |-> step.outcome, before |-> baseFile,
                            returned |-> TRUE]
            /\ msg' = "Succes"

(***************************************************************************)
(* Roster loader.  lll.CSV is absent, unreadable, or a table whose cells   *)
(* are text (the export writes values as ="...") or missing.               *)
(***************************************************************************)
\* df[name] = values, whether df has the label or not
AssignColumn(t, name, values) ==
    IF HasColumn(t, name) THEN SetColumn(t, name, values)
    ELSE [cols |-> Append(t.cols, name),
          rows |-> [r \in 1..Len(t.rows) |-> Append(t.rows[r], values[r])]]

\* df.applymap(clean_csv_value)
CleanCells(t) ==
    [cols |-> t.cols,
     rows |-> [r \in 1..Len(t.rows) |->
                 [c \in 1..Len(t.cols) |-> clean_csv_value(t.rows[r][c])]]]

LoadRaises(file) == file.state # "csv"

\* load_employees() when the file is there and readable
load_employees(file) ==
    LET normalized == normalize_employee_columns(CleanCells(file.table))
        withCin == SetColumn(normalized, CIN,
                       [r \in 1..Len(normalized.rows) |-> format_cin(Column(normalized, CIN)[r])])
    IN  update_cnss_with_num(withCin)

\* pd.DataFrame(columns=['Matricule','Nom','Prenom','CIN','CNSS'])
FallbackRoster == [cols |-> <<Matricule, Nom, Prenom, CIN, CNSS>>, rows |-> <<>>]

\* the try / except of App.__init__, after which the window is built
LoadOrFallback(file) ==
    IF LoadRaises(file)
    THEN [df |-> FallbackRoster, shown |-> "Erreur", running |-> TRUE]
    ELSE [df |-> load_employees(file), shown |-> "none", running |-> TRUE]

(***************************************************************************)
(* The form and its lookups.  Of the StringVars the model keeps matricule, *)
(* nom_prenom, cin, cnss and date.  str.contains takes its pattern as a    *)
(* regular expression; the texts typed here are letters and digits, for    *)
(* which that is the substring test.                                       *)
(***************************************************************************)
\* App.remove_accents: NFD without the characters of category Mn
app_remove_accents(s) == [i \in 1..Len(s) |-> unaccent_ch(s[i])]

FirstSpace(s) ==
    IF \E i \in 1..Len(s) : s[i] \in Whitespace
    THEN CHOOSE i \in 1..Len(s) : s[i] \in Whitespace /\ \A j \in 1..(i - 1) : s[j] \notin Whitespace
    ELSE Len(s) + 1

\* str.split()
RECURSIVE split(_)
split(s) ==
    LET t == lstrip(s) IN
    IF t = <<>> THEN <<>>
    ELSE <<SubSeq(t, 1, FirstSpace(t) - 1)>> \o split(SubSeq(t, FirstSpace(t), Len(t)))

Now == <<"1", "/", "1">>
EmptyForm == [matricule |-> <<>>, nom_prenom |-> <<>>, cin |-> <<>>, cnss |-> <<>>, date |-> <<>>]
ClosedPopup == [open |-> FALSE, items |-> <<>>]
NoPopups == [name |-> ClosedPopup, matricule |-> ClosedPopup]

\* the rows of df, in order, that satisfy a test
RECURSIVE RowsWhere(_, _, _)
RowsWhere(matching, n, r) ==
    IF r > n THEN <<>>
    ELSE IF r \in matching THEN <<r>> \o RowsWhere(matching, n, r + 1)
         ELSE RowsWhere(matching, n, r + 1)

FullName(t, r) ==
    app_remove_accents(strip(lower(ToStr(Cell(t, r, Nom)) \o <<" ">> \o ToStr(Cell(t, r, Prenom)))))

\* self.df['NomComplet'] = self.df.apply(..., axis=1)
WithNomComplet(t) == AssignColumn(t, NomComplet, [r \in 1..Len(t.rows) |-> FullName(t, r)])

MatriculeMatches(t, m) ==
    RowsWhere({r \in 1..Len(t.rows) : Contains(lower(ToStr(Cell(t, r, Matricule))), lower(m))},
              Len(t.rows), 1)

NameMatches(t, input_norm) ==
    RowsWhere({r \in 1..Len(t.rows) : Contains(Cell(t, r, NomComplet), input_norm)},
              Len(t.rows), 1)

\* fill_fields(row): the form after the record was copied into it
fill_fields(f, t, r) ==
    [f EXCEPT !.matricule = strip(ToStr(Cell(t, r, Matricule))),
              !.nom_prenom = strip(Cell(t, r, Nom)) \o <<" ">> \o strip(Cell(t, r, Prenom)),
              !.cin = format_cin(Cell(t, r, CIN)),
              !.cnss = strip(ToStr(Cell(t, r, CNSS)))]

\* the data dict of App.generate
GenerateData(f) ==
    LET words == split(strip(f.nom_prenom)) IN
    [Matricule |-> strip(f.matricule),
     Nom |-> IF strip(f.nom_prenom) # <<>> THEN words[1] ELSE <<>>,
     Prenom |-> IF Len(words) > 1 THEN words[2] ELSE <<>>,
     CIN |-> format_cin(f.cin),
     DateAdmission |-> strip(f.date)]

\* On a frame without rows, DataFrame.apply(axis=1) does not give a column of
\* texts: depending on the pandas release the assignment of 'NomComplet' raises,
\* or the .str accessor on the new column does, or the lookup goes through with
\* no match.  The exception ends the callback, and Tk reports it and carries on.
EmptyFrameOutcomes == {"assignment_raises", "accessor_raises", "no_rows"}

(***************************************************************************)
(* The idle values of the variables a specification does not use.          *)
(***************************************************************************)
NoValue == <<>>
IdleFn == pc = "idle" /\ arg = NoValue /\ ret = NoValue
IdleApp == rosterFile = NoValue /\ df = NoValue /\ form = NoValue /\ listbox = NoValue /\ msg = NoValue
IdleReg == baseFile = NoValue /\ pdfFile = NoValue /\ lastCall = NoValue

(***************************************************************************)
(* SpecFormat: format_cin and format_num on every raw value of at most     *)
(* MaxRawLen characters, and on the missing marker.                        *)
(***************************************************************************)
RawAlphabet == {"7", "a", " "}
RawValues == Strings(RawAlphabet, MaxRawLen) \cup {NaN}

InitFormat ==
    /\ pc = "raw"
    /\ arg \in RawValues
    /\ ret = NoValue
    /\ IdleApp /\ IdleReg

FormatCin ==
    /\ pc = "raw"
    /\ ret' = format_cin(arg)
    /\ pc' = "format_cin"
    /\ UNCHANGED <<arg, appVars, regVars>>

FormatNum ==
    /\ pc = "raw"
    /\ ret' = format_num(arg)
    /\ pc' = "format_num"
    /\ UNCHANGED <<arg, appVars, regVars>>

NextFormat == FormatCin \/ FormatNum

SpecFormat == InitFormat /\ [][NextFormat]_vars

WidthOf(p) == IF p = "format_cin" THEN CinWidth ELSE NumWidth
Formatted == pc \in {"format_cin", "format_num"}
HasDigit(s) == \E i \in 1..Len(s) : isdigit(s[i])
AllDigits(s) == \A i \in 1..Len(s) : isdigit(s[i])

\* C8: a raw value that is missing, empty or without any digit character is
\* formatted by format_cin and by format_num to the empty string, never to zeros.
C8_NoDigitGivesEmpty ==
    (Formatted /\ (isna(arg) \/ ~HasDigit(arg))) => ret = <<>>

\* C9: a raw value with at least one digit, however many, is formatted to exactly
\* the target width (8 for format_cin, 2 for format_num), all of it digits.
C9_DigitsGiveExactWidth ==
    (Formatted /\ ~isna(arg) /\ HasDigit(arg)) => (Len(ret) = WidthOf(pc) /\ AllDigits(ret))

(***************************************************************************)
(* SpecDedup: deduplicate_columns on every header row of at most MaxCols   *)
(* names.                                                                  *)
(***************************************************************************)
HeaderNames == {<<"N","o","m">>, <<"N","o","m",".","1">>, <<"N","o","m",".","2">>, <<"X">>}
HeaderRows == Strings(HeaderNames, MaxCols)

InitDedup ==
    /\ pc = "columns"
    /\ arg \in HeaderRows
    /\ ret = NoValue
    /\ IdleApp /\ IdleReg

DeduplicateColumns ==
    /\ pc = "columns"
    /\ ret' = deduplicate_columns(arg)
    /\ pc' = "deduplicated"
    /\ UNCHANGED <<arg, appVars, regVars>>

NextDedup == DeduplicateColumns

SpecDedup == InitDedup /\ [][NextDedup]_vars

\* the number of occurrences of columns[i] before position i
Repeats(columns, i) == Cardinality({j \in 1..(i - 1) : columns[j] = columns[i]})

\* C5: the deduplicated header row has the length of the raw one, its names
\* are pairwise distinct, a first occurrence is unchanged and the k-th repeat
\* of a name is that name suffixed .k, each at its own position.
C5_DedupUniqueAndSuffixed ==
    pc = "deduplicated" =>
        /\ Len(ret) = Len(arg)
        /\ \A i, j \in 1..Len(ret) : i # j => ret[i] # ret[j]
        /\ \A i \in 1..Len(arg) :
              ret[i] = IF Repeats(arg, i) = 0 THEN arg[i]
                       ELSE arg[i] \o <<".">> \o DecimalStr(Repeats(arg, i))

(***************************************************************************)
(* SpecNormalize: normalize_employee_columns on every table of at most     *)
(* MaxHeaders columns, headed by names of FileHeaders, and at most         *)
(* MaxNormRows rows.  A "padded" row holds in column c the text " vc ",    *)
(* a "missing" row holds the missing marker in every column.               *)
(***************************************************************************)
H_carte == <<"C","a","r","t","e"," ","d","e"," ","s","e'","j","o","u","r">>
H_numero == <<"N","u","m","e'","r","o"," ","d","e"," ","s","e'","c","u","r","i","t","e'"," ","s","o","c","i","a","l","e">>
H_cle == <<"C","l","e'"," ","d","u"," ","n","u","m","e'","r","o"," ","d","e"," ","s","e'","c","u","r","i","t","e'"," ","s","o","c","i","a","l","e">>
H_service == <<"S","e","r","v","i","c","e">>
FileHeaders == {Matricule, Nom, Prenom, CIN, H_carte, H_numero, H_cle, H_service}
RowKinds == {"padded", "missing"}

RowOf(kind, n) ==
    [c \in 1..n |-> IF kind = "padded" THEN <<" ", "v", DigitChars[c + 1], " ">> ELSE NaN]

RawTables ==
    {[cols |-> h, rows |-> [r \in 1..Len(k) |-> RowOf(k[r], Len(h))]] :
        h \in Strings(FileHeaders, MaxHeaders), k \in Strings(RowKinds, MaxNormRows)}

InitNormalize ==
    /\ pc = "raw_table"
    /\ arg \in RawTables
    /\ ret = NoValue
    /\ IdleApp /\ IdleReg

NormalizeEmployeeColumns ==
    /\ pc = "raw_table"
    /\ ret' = [df |-> normalize_employee_columns(arg), mapping |-> MappingOf(arg)]
    /\ pc' = "normalized"
    /\ UNCHANGED <<arg, appVars, regVars>>

NextNormalize == NormalizeEmployeeColumns

SpecNormalize == InitNormalize /\ [][NextNormalize]_vars

Needed == {NeededColumns[n] : n \in 1..Len(NeededColumns)}
RawHeaders == {arg.cols[i] : i \in 1..Len(arg.cols)}
MappedTo(name) == \E item \in ret.mapping : item[2] = name

\* every row has the six canonical fields, each a trimmed string
SchemaComplete ==
    /\ Len(ret.df.rows) = Len(arg.rows)
    /\ \A name \in Needed :
          /\ HasColumn(ret.df, name)
          /\ \A r \in 1..Len(ret.df.rows) :
                /\ ~isna(Cell(ret.df, r, name))
                /\ strip(Cell(ret.df, r, name)) = Cell(ret.df, r, name)

EmptyInEveryRow(name) ==
    HasColumn(ret.df, name) /\ \A r \in 1..Len(ret.df.rows) : Cell(ret.df, r, name) = <<>>

\* C6: a header whose key contains "cle du numero de securite" (and none of
\* "matric", "nom", "carte de sejour", "carte de travail") is mapped to Num, and
\* one that contains "numero de securite" without "cle du" is mapped to CNSS.
C6_CleMapsToNum ==
    pc = "normalized" =>
        \A h \in RawHeaders :
            LET key == HeaderKey(h)
                earlier == \/ Contains(key, K_matric) \/ Contains(key, K_nom)
                           \/ Contains(key, K_carte_sejour) \/ Contains(key, K_carte_travail)
            IN  /\ (Contains(key, K_cle) /\ ~earlier) => <<h, Num>> \in ret.mapping
                /\ (Contains(key, K_numero) /\ ~Contains(key, <<"c","l","e"," ","d","u">>) /\ ~earlier)
                        => <<h, CNSS>> \in ret.mapping

\* C7 as stated: the six canonical fields are present as trimmed strings in
\* every row, and a canonical field to which no header mapped is empty in every row.
C7_UnmappedFieldEmpty ==
    pc = "normalized" =>
        /\ SchemaComplete
        /\ \A name \in Needed : ~MappedTo(name) => EmptyInEveryRow(name)

\* C7 amended: the six canonical fields are present as trimmed strings in every
\* row, and a canonical field to which no header mapped and which is not itself a
\* header of the file is empty in every row.
C7_AbsentFieldEmpty ==
    pc = "normalized" =>
        /\ SchemaComplete
        /\ \A name \in Needed :
              (~MappedTo(name) /\ name \notin RawHeaders) => EmptyInEveryRow(name)

\* a table of two unrecognized columns and a padded row was normalized: all six
\* canonical fields were added, empty
C7_Witness ==
    /\ pc = "normalized"
    /\ arg.cols = <<H_service, H_service>>
    /\ Len(arg.rows) = 1
    /\ arg.rows[1][1] = <<" ", "v", "1", " ">>
    /\ ret.mapping = {}
    /\ \A name \in Needed : EmptyInEveryRow(name)

(***************************************************************************)
(* SpecCnss: update_cnss_with_num on every table of at most MaxCnssRows    *)
(* rows that has both, one or none of the columns CNSS and Num.            *)
(***************************************************************************)
BasePool == {<<>>, <<"1","2","3","4","5","6">>, <<" ","1","2","3","4","5","6"," ">>,
             <<"1","2","3","4","5","6","7">>, <<" ","1","2","3","4","5","6","7"," ">>,
             <<"1","2","3","4","5","6","7","8">>}
CheckPool == {NaN, <<>>, <<"5">>, <<"8">>, <<"0","8">>, <<"x">>, <<"1","2","3">>}

CnssTables ==
    {[cols |-> <<CNSS, Num>>, rows |-> rows] : rows \in Strings(BasePool \X CheckPool, MaxCnssRows)}
    \cup {[cols |-> <<CNSS>>, rows |-> rows] : rows \in Strings({<<b>> : b \in BasePool}, MaxCnssRows)}
    \cup {[cols |-> <<Num>>, rows |-> rows] : rows \in Strings({<<n>> : n \in CheckPool}, MaxCnssRows)}
    \cup {[cols |-> <<Matricule>>, rows |-> rows] : rows \in Strings({<<<<"1">>>>}, MaxCnssRows)}

InitCnss ==
    /\ pc = "cnss_table"
    /\ arg \in CnssTables
    /\ ret = NoValue
    /\ IdleApp /\ IdleReg

UpdateCnssWithNum ==
    /\ pc = "cnss_table"
    /\ ret' = update_cnss_with_num(arg)
    /\ pc' = "cnss_updated"
    /\ UNCHANGED <<arg, appVars, regVars>>

NextCnss == UpdateCnssWithNum

SpecCnss == InitCnss /\ [][NextCnss]_vars

\* the raw cell of a column, the empty string when the table has no such column
RawCell(r, name) == IF HasColumn(arg, name) THEN Cell(arg, r, name) ELSE <<>>

TypedMatricules == {<<>>, <<"7">>, <<"A", "7">>}
TypedDates == {<<>>, <<"1", "/", "1">>}
TypedNames == {<<"D">>, <<"M">>}
LetterData ==
    {[Matricule |-> m, Nom |-> n, Prenom |-> <<>>, CIN |-> <<>>, DateAdmission |-> d] :
        m \in TypedMatricules, n \in TypedNames, d \in TypedDates}

InitRegistry ==
    /\ IdleFn
    /\ rosterFile = NoValue /\ df = NoValue /\ form = NoValue /\ listbox = NoValue
    /\ msg = "none"
    /\ baseFile = Absent
    /\ pdfFile = NoPdf
    /\ lastCall = NoCall

IssueLetter ==
    /\ \E data \in LetterData, pdf \in PdfOutcomes, io \in IoOutcomes : generate_pdf(data, pdf, io)
    /\ UNCHANGED <<fnVars, rosterFile, df, form, listbox>>

NextRegistry == IssueLetter

SpecRegistry == InitRegistry /\ [][NextRegistry]_vars

\* the text a persisted cell shows
CellText(cell) == cell.v
KeyOfRow(row) == <<CellText(row.Matricule), CellText(row.DateAdmission)>>
KeyOfData(data) == <<data.Matricule, data.DateAdmission>>
RowsWithKey(file, key) == {r \in 1..Len(file.rows) : KeyOfRow(file.rows[r]) = key}

\* C1: the persisted registry never holds two rows with the same
\* (Matricule, Date d'admission) pair, the empty string included.
C1_NoDuplicateKey ==
    \A i, j \in 1..Len(baseFile.rows) :
        i # j => KeyOfRow(baseFile.rows[i]) # KeyOfRow(baseFile.rows[j])

\* C2: a call whose key is that of a persisted row, and in which no input/output
\* fails, is a no-op: the sheet is left as it was and holds one row of that key.
C2_SameKeyIsNoOp ==
    (/\ lastCall.outcome \in {"recorded", "already_recorded"}
     /\ RowsWithKey(lastCall.before, KeyOfData(lastCall.data)) # {})
        => /\ lastCall.outcome = "already_recorded"
           /\ baseFile = lastCall.before
           /\ Cardinality(RowsWithKey(baseFile, KeyOfData(lastCall.data))) = 1

\* the letter was saved, generate_pdf returned and the caller reported success
LetterIssued ==
    /\ pdfFile = [state |-> "written", data |-> lastCall.data]
    /\ lastCall.returned
    /\ msg = "Succes"

\* C3 as stated: when reading or writing the registry fails, the letter is saved,
\* the call returns, success is reported, and the persisted table is what it was
\* before the call.
C3_FailureLeavesTable ==
    lastCall.outcome \in RegistryErrors => (LetterIssued /\ baseFile = lastCall.before)

\* C3 amended: when reading or writing the registry fails, the letter is saved,
\* the call returns and success is reported; the persisted table is what it was
\* before the call when the read failed or the file could not be opened for
\* writing.
C3_FailureIsNotFatal ==
    lastCall.outcome \in RegistryErrors =>
        /\ LetterIssued
        /\ lastCall.outcome \in {"read_error", "write_open_error"} => baseFile = lastCall.before

\* a sheet of one row could not be read during a call: the letter was saved,
\* success reported and the sheet kept
C3_Witness ==
    /\ lastCall.outcome = "read_error"
    /\ lastCall.before.state = "sheet"
    /\ Len(baseFile.rows) = 1
    /\ LetterIssued

(***************************************************************************)
(* Spec: the application.  It starts on a roster file that is absent,      *)
(* unreadable or one of two tables; the clerk then edits the entries, runs *)
(* the lookups, picks from the popups, clears the form and issues letters. *)
(***************************************************************************)
Quoted(s) == <<"=", "\"">> \o s \o <<"\"">>
RosterA ==
    [cols |-> <<Matricule, Nom, Prenom, H_carte, H_numero, H_cle>>,
     rows |-> << <<Quoted(<<"7">>), <<"D","u","p","o^","n","t">>, <<"J","o","s","e'">>,
                   Quoted(<<"1","2","3","4">>), <<"1","2","3","4","5","6","7","8">>, <<"8">>>>,
                 <<Quoted(<<"A","7">>), <<"M","a","r","t","i","n">>, <<"Z","o","e'">>,
                   NaN, <<"1","2","3">>, <<"9">>>> >>]
RosterB ==
    [cols |-> <<H_service, Nom>>,
     rows |-> << <<<<"R","H">>, <<"J","o","s","e">>>> >>]
RosterFiles ==
    {[state |-> "absent", table |-> NoValue], [state |-> "unreadable", table |-> NoValue],
     [state |-> "csv", table |-> RosterA], [state |-> "csv", table |-> RosterB]}

TypedTexts ==
    [matricule |-> {<<>>, <<" ">>, <<"7">>},
     nom_prenom |-> {<<>>, <<" ">>, <<"j","o","s","e">>, <<"z"," ","z">>}]

Init ==
    /\ pc = "start"
    /\ arg = NoValue /\ ret = NoValue
    /\ rosterFile \in RosterFiles
    /\ df = NoValue
    /\ form = EmptyForm
    /\ listbox = NoPopups
    /\ msg = "none"
    /\ baseFile = Absent
    /\ pdfFile = NoPdf
    /\ lastCall = NoCall

\* App.__init__
Startup ==
    /\ pc = "start"
    /\ LET loaded == LoadOrFallback(rosterFile) IN
       /\ df' = loaded.df
       /\ msg' = loaded.shown
       /\ pc' = IF loaded.running THEN "running" ELSE "crashed"
    /\ form' = [EmptyForm EXCEPT !.date = Now]
    /\ UNCHANGED <<arg, ret, rosterFile, listbox, regVars>>

\* the clerk closes the message box, if any, and changes the text of an entry
EditEntry ==
    /\ pc = "running"
    /\ \E field \in DOMAIN TypedTexts : \E text \in TypedTexts[field] :
          form' = [form EXCEPT ![field] = text]
    /\ msg' = "none"
    /\ UNCHANGED <<fnVars, rosterFile, df, listbox, regVars>>

search_by_matricule_unguarded ==
    /\ pc = "running"
    /\ LET m == strip(form.matricule)
           row == MatriculeMatches(df, m)
       IN  IF row = <<>> THEN msg' = "Aucun employe" /\ form' = form
           ELSE msg' = "filled" /\ form' = fill_fields(form, df, row[1])
    /\ UNCHANGED <<fnVars, rosterFile, df, listbox, regVars>>

search_by_matricule ==
    /\ pc = "running"
    /\ LET m == strip(form.matricule)
           row == MatriculeMatches(df, m)
       IN  IF m = <<>> THEN msg' = "Entrez un matricule" /\ form' = form
           ELSE IF row = <<>> THEN msg' = "Aucun employe" /\ form' = form
           ELSE msg' = "filled" /\ form' = fill_fields(form, df, row[1])
    /\ UNCHANGED <<fnVars, rosterFile, df, listbox, regVars>>

search_by_name ==
    /\ pc = "running"
    /\ LET input_str == strip(form.nom_prenom)
           input_norm == app_remove_accents(lower(input_str))
           row == NameMatches(WithNomComplet(df), input_norm)
       IN  IF input_str = <<>>
           THEN msg' = "Entrez Nom" /\ form' = form /\ df' = df
           ELSE IF Len(df.rows) = 0
           THEN \E lib \in EmptyFrameOutcomes :
                   /\ msg' = IF lib = "no_rows" THEN "Aucun employe" ELSE "callback_error"
                   /\ df' = IF lib = "assignment_raises" THEN df ELSE WithNomComplet(df)
                   /\ form' = form
           ELSE /\ df' = WithNomComplet(df)
                /\ IF row = <<>> THEN msg' = "Aucun employe" /\ form' = form
                   ELSE msg' = "filled" /\ form' = fill_fields(form, WithNomComplet(df), row[1])
    /\ UNCHANGED <<fnVars, rosterFile, listbox, regVars>>

on_name_typing ==
    /\ pc = "running"
    /\ LET text == lower(strip(form.nom_prenom))
           rows == NameMatches(WithNomComplet(df), app_remove_accents(text))
           matches == [k \in 1..Len(rows) |-> Cell(WithNomComplet(df), rows[k], NomComplet)]
       IN  IF text = <<>>
           THEN listbox' = [listbox EXCEPT !.name = ClosedPopup] /\ df' = df /\ msg' = "none"
           ELSE IF Len(df.rows) = 0
           THEN \E lib \in EmptyFrameOutcomes :
                   /\ msg' = IF lib = "no_rows" THEN "none" ELSE "callback_error"
                   /\ df' = IF lib = "assignment_raises" THEN df ELSE WithNomComplet(df)
                   /\ listbox' = IF lib = "no_rows" THEN [listbox EXCEPT !.name = ClosedPopup]
                                 ELSE listbox
           ELSE /\ df' = WithNomComplet(df)
                /\ msg' = "none"
                /\ listbox' = [listbox EXCEPT !.name =
                       IF matches # <<>> THEN [open |-> TRUE, items |-> matches] ELSE ClosedPopup]
    /\ UNCHANGED <<fnVars, rosterFile, form, regVars>>

select_autocomplete_name ==
    /\ pc = "running"
    /\ listbox.name.open
    /\ \E k \in 1..Len(listbox.name.items) :
          LET selection == listbox.name.items[k]
              typed == [form EXCEPT !.nom_prenom = selection]
              row == RowsWhere({r \in 1..Len(df.rows) :
                                   Cell(df, r, NomComplet) = app_remove_accents(lower(selection))},
                               Len(df.rows), 1)
          IN  IF row # <<>> THEN msg' = "filled" /\ form' = fill_fields(typed, df, row[1])
              ELSE msg' = "none" /\ form' = typed
    /\ listbox' = [listbox EXCEPT !.name = ClosedPopup]
    /\ UNCHANGED <<fnVars, rosterFile, df, regVars>>

on_matricule_typing ==
    /\ pc = "running"
    /\ LET text == lower(strip(form.matricule))
           rows == MatriculeMatches(df, text)
           matches == [k \in 1..Len(rows) |-> Cell(df, rows[k], Matricule)]
       IN  listbox' = [listbox EXCEPT !.matricule =
               IF text # <<>> /\ matches # <<>> THEN [open |-> TRUE, items |-> matches]
               ELSE ClosedPopup]
    /\ msg' = "none"
    /\ UNCHANGED <<fnVars, rosterFile, df, form, regVars>>

select_autocomplete_matricule ==
    /\ pc = "running"
    /\ listbox.matricule.open
    /\ \E k \in 1..Len(listbox.matricule.items) :
          LET selection == listbox.matricule.items[k]
              typed == [form EXCEPT !.matricule = selection]
              row == RowsWhere({r \in 1..Len(df.rows) : ToStr(Cell(df, r, Matricule)) = selection},
                               Len(df.rows), 1)
          IN  IF row # <<>> THEN msg' = "filled" /\ form' = fill_fields(typed, df, row[1])
              ELSE msg' = "none" /\ form' = typed
    /\ listbox' = [listbox EXCEPT !.matricule = ClosedPopup]
    /\ UNCHANGED <<fnVars, rosterFile, df, regVars>>

\* App.generate.  The lookups neither read nor write the registry, and generate
\* changes neither the form nor the roster: the model lets the clerk fill in the
\* form first and then issue the letter, any number of times.
generate ==
    /\ pc \in {"running", "issuing"}
    /\ \E pdf \in PdfOutcomes, io \in IoOutcomes : generate_pdf(GenerateData(form), pdf, io)
    /\ pc' = "issuing"
    /\ UNCHANGED <<arg, ret, rosterFile, df, form, listbox>>

clear_form ==
    /\ pc = "running"
    /\ form' = EmptyForm
    /\ msg' = "none"
    /\ UNCHANGED <<fnVars, rosterFile, df, listbox, regVars>>

Next ==
    \/ Startup
    \/ EditEntry
    \/ search_by_matricule
    \/ search_by_name
    \/ on_name_typing
    \/ select_autocomplete_name
    \/ on_matricule_typing
    \/ select_autocomplete_matricule
    \/ generate
    \/ clear_form

Spec == Init /\ [][Next]_vars

\* C4: when the roster file is absent or unreadable, start-up shows the error and
\* leaves the application running on a roster without records; from then on
\* every lookup ends as a miss (it fills nothing, lists nothing and raises
\* nothing), and a letter reported as issued renders what the form holds.
C4_LoadFailureStartsEmpty ==
    [][LoadRaises(rosterFile) =>
        /\ pc = "start" => (pc' = "running" /\ msg' = "Erreur")
        /\ pc' \in {"running", "issuing"}
        /\ Len(df'.rows) = 0
        /\ msg' # "filled"
        /\ listbox' = NoPopups
        /\ form'.cin = <<>> /\ form'.cnss = <<>>
        /\ msg' = "Succes" =>
              /\ pdfFile' = [state |-> "written", data |-> GenerateData(form)]
              /\ pdfFile'.data.Matricule = strip(form.matricule)
        /\ pc' = "running" => msg' # "callback_error"]_vars

\* C11: whatever the roster holds, a lookup made with an empty or blank entry
\* finds nothing, on the search buttons and on the type-ahead path, by matricule
\* and by name: the form stays as it was, nothing is reported as filled, and the
\* match list of that entry is not shown.
BlankQuery(text) == strip(text) = <<>>

C11_BlankQueryFindsNothing ==
    [][/\ (search_by_matricule /\ BlankQuery(form.matricule)) =>
             (form' = form /\ msg' = "Entrez un matricule" /\ listbox' = listbox)
       /\ (search_by_name /\ BlankQuery(form.nom_prenom)) =>
             (form' = form /\ msg' = "Entrez Nom" /\ listbox' = listbox)
       /\ (on_matricule_typing /\ BlankQuery(form.matricule)) =>
             (form' = form /\ msg' # "filled" /\ ~listbox'.matricule.open
              /\ listbox'.name = listbox.name)
       /\ (on_name_typing /\ BlankQuery(form.nom_prenom)) =>
             (form' = form /\ msg' # "filled" /\ ~listbox'.name.open
              /\ listbox'.matricule = listbox.matricule)]_vars

\* on a loaded roster with records, the search button was pressed on a matricule
\* entry holding one space while an earlier look-up had filled other fields
C11_Witness ==
    /\ pc = "running"
    /\ Len(df.rows) > 0
    /\ form.matricule = <<" ">>
    /\ form.cin # <<>>
    /\ msg = "Entrez un matricule"

\* C12: once loaded, the roster in memory is never changed: no lookup and no
\* selection of a match adds, removes or alters a row, a column or a cell of it,
\* and a lookup or selection that fills the form copies the fields of one record
\* of the roster into it.
C12_RosterOnlyChangedByLoad ==
    [][pc = "running" =>
        /\ df' = df
        /\ msg' = "filled" =>
              \E r \in 1..Len(df.rows) : form' = fill_fields(form, df, r)]_vars

(***************************************************************************)
(* SpecRace: two processes of the program run generate_pdf on the same     *)
(* base_lettres.xlsx.  The try block takes no lock and is two accesses to  *)
(* the file, pd.read_excel and, after the check made on the frame in       *)
(* memory, to_excel; the steps of the two processes interleave freely.     *)
(* pc, arg and ret hold, per process, its position, the letter it issues   *)
(* and its locals (base_df, and what the file was when it was read).       *)
(***************************************************************************)
Writers == {"p", "q"}

NoLocals == [base_df |-> <<>>, seen |-> Absent, stale |-> FALSE, outcome |-> "running"]

InitRace ==
    /\ pc = [w \in Writers |-> "call"]
    /\ arg \in [Writers -> LetterData]
    /\ ret = [w \in Writers |-> NoLocals]
    /\ rosterFile = NoValue /\ df = NoValue /\ form = NoValue /\ listbox = NoValue
    /\ msg = "none"
    /\ baseFile = Absent
    /\ pdfFile = NoPdf
    /\ lastCall = NoCall

\* lines 246-249: base_df is read from the file, or is an empty frame
WriterLoad(w) ==
    /\ pc[w] = "call"
    /\ \E io \in {"ok", "read_fails"} :
          IF baseFile.state = "damaged" \/ (io = "read_fails" /\ baseFile.state = "sheet")
          THEN /\ ret' = [ret EXCEPT ![w].outcome = "read_error"]
               /\ pc' = [pc EXCEPT ![w] = "returned"]
          ELSE /\ ret' = [ret EXCEPT ![w].base_df =
                              IF baseFile.state = "sheet" THEN read_excel(baseFile.rows) ELSE <<>>,
                                     ![w].seen = baseFile]
               /\ pc' = [pc EXCEPT ![w] = "loaded"]
    /\ UNCHANGED <<arg, appVars, regVars>>

WriterSave_merging(w) ==
    /\ pc[w] = "loaded"
    /\ LET row == data_to_save(arg[w])
           stale == baseFile # ret[w].seen
       IN  IF AlreadyRecorded(ret[w].base_df, row)
           THEN /\ ret' = [ret EXCEPT ![w].outcome = "already_recorded", ![w].stale = stale]
                /\ baseFile' = baseFile
           ELSE \E io \in {"ok", "write_fails_at_open", "write_fails_midway"} :
                /\ ret' = [ret EXCEPT ![w].stale = stale,
                                      ![w].outcome = CASE io = "ok" -> "recorded"
                                                       [] io = "write_fails_at_open" -> "write_open_error"
                                                       [] OTHER -> "write_midway_error"]
                /\ baseFile' = CASE io = "ok" -> Sheet(to_excel(Append(IF baseFile.state = "sheet"
                                                                  THEN read_excel(baseFile.rows)
                                                                  ELSE <<>>, row)))
                                 [] io = "write_fails_at_open" -> baseFile
                                 [] OTHER -> Damaged
    /\ pc' = [pc EXCEPT ![w] = "returned"]
    /\ UNCHANGED <<arg, appVars, pdfFile, lastCall>>

\* lines 251-270: the check on base_df, then concat and to_excel, which replaces
\* the whole file by the frame this process holds
WriterSave(w) ==
    /\ pc[w] = "loaded"
    /\ LET row == data_to_save(arg[w])
           stale == baseFile # ret[w].seen
       IN  IF AlreadyRecorded(ret[w].base_df, row)
           THEN /\ ret' = [ret EXCEPT ![w].outcome = "already_recorded", ![w].stale = stale]
                /\ baseFile' = baseFile
           ELSE \E io \in {"ok", "write_fails_at_open", "write_fails_midway"} :
                /\ ret' = [ret EXCEPT ![w].stale = stale,
                                      ![w].outcome = CASE io = "ok" -> "recorded"
                                                       [] io = "write_fails_at_open" -> "write_open_error"
                                                       [] OTHER -> "write_midway_error"]
                /\ baseFile' = CASE io = "ok" -> Sheet(to_excel(Append(ret[w].base_df, row)))
                                 [] io = "write_fails_at_open" -> baseFile
                                 [] OTHER -> Damaged
    /\ pc' = [pc EXCEPT ![w] = "returned"]
    /\ UNCHANGED <<arg, appVars, pdfFile, lastCall>>

WriterLoads == \E w \in Writers : WriterLoad(w)
WriterSaves == \E w \in Writers : WriterSave(w)

NextRace == WriterLoads \/ WriterSaves

SpecRace == InitRace /\ [][NextRace]_vars

BothRecorded ==
    /\ \A w \in Writers : pc[w] = "returned" /\ ret[w].outcome = "recorded"
    /\ \A w, o \in Writers : w # o => KeyOfData(arg[w]) # KeyOfData(arg[o])

\* C13: the read / check / append / overwrite sequence holds no lock.  When two
\* processes record letters with different keys and both calls end without
\* error, the file lacks the record of one of them exactly when the other wrote
\* from a frame it had read before that record was written; each process's own
\* last write is otherwise in the file.
C13_StaleWriteLosesRecord ==
    BothRecorded =>
        \A w \in Writers : \A o \in Writers \ {w} :
            ret[w].stale <=> RowsWithKey(baseFile, KeyOfData(arg[o])) = {}

\* both calls completed without error, the keys differ, and the file holds one row
C13_Witness ==
    /\ BothRecorded
    /\ Len(baseFile.rows) = 1
    /\ \E w \in Writers : ret[w].stale

====
